---- MODULE Spec2Model ----
(***************************************************************************)
(* The per-user scheduler of goose, src/src/user.rs: user_main.            *)
(* One user walks its on_start buckets, loops over the weighted steady     *)
(* buckets with a cooperative 1-second-slice wait that polls the command   *)
(* channel, and walks its on_stop buckets once the loop is left.           *)
(*                                                                         *)
(* Indices are kept 0-based as in the source; a TLA+ sequence is indexed   *)
(* with "+ 1".  Option<String> is a sequence of length 0 (None) or 1.      *)
(***************************************************************************)
EXTENDS Naturals, Integers, Sequences, FiniteSets, TLC

\* ---------------------------------------------------------------- bounds
\* Largest min_wait / max_wait the inputs are drawn from.
MaxWait == 2
\* Steady tasks a user may start while no EXIT has been sent; once EXIT has
\* been sent it may start one more.
MaxRuns == 4
\* Commands the controller may send on the channel.
MaxCmds == 2

\* ------------------------------------------------------- pure helpers
None == << >>
Some(x) == << x >>

Range(s) == { s[i] : i \in 1..Len(s) }
Count(s, x) == Cardinality({ i \in 1..Len(s) : s[i] = x })
SameBag(s, t) ==
    /\ Len(s) = Len(t)
    /\ \A x \in Range(s) \cup Range(t) : Count(s, x) = Count(t, x)

\* slice::shuffle: every permutation of the slice is a possible outcome.
Shuffle(s) == { t \in [1..Len(s) -> Range(s)] : SameBag(s, t) }

\* `if sequence.len() > 1 { sequence.shuffle(..) }` of the on_start/on_stop walk.
HookShuffleSample(s) == [1..Len(s) -> Range(s)]
HookShuffle(s) == IF Len(s) > 1 THEN Shuffle(s) ELSE { s }

\* GooseUserCommand; EXIT is the one user_main matches on.
Commands == { "EXIT", "RUN" }

\* ------------------------------------------------------------- inputs
\* A weighted plan: an on_start login and one bucket in which an index
\* repeats (weights 2 : 1).  It has the on_start list and the first task
\* names of the drupal example's AuthBrowsingUser, not its steady bucket:
\* the example's four steady tasks (weights 15, 10, 3, 3) give one bucket of
\* 31 entries.
PlanWeighted ==
    [ tasks    |-> << "(Auth) login", "(Auth) front page", "(Auth) node page" >>,
      on_start |-> << << 0 >> >>,
      steady   |-> << << 1, 1, 2 >> >>,
      on_stop  |-> << >> ]

\* Sequenced plan with named and unnamed tasks in every phase.
PlanSeq ==
    [ tasks    |-> << "login", "", "a", "", "b", "logout", "" >>,
      on_start |-> << << 0 >>, << 1 >> >>,
      steady   |-> << << 2 >>, << 3, 4 >> >>,
      on_stop  |-> << << 5, 6 >> >> ]

\* One unsequenced bucket of two tasks of equal weight, the first unnamed.
PlanPair ==
    [ tasks    |-> << "", "(Anon) front page" >>,
      on_start |-> << >>,
      steady   |-> << << 0, 1 >> >>,
      on_stop  |-> << >> ]

\* No steady task at all.
PlanHooks ==
    [ tasks    |-> << "login", "logout" >>,
      on_start |-> << << 0 >> >>,
      steady   |-> << >>,
      on_stop  |-> << << 1 >> >> ]

Plans == { PlanWeighted, PlanSeq, PlanPair, PlanHooks }

\* A new user: position (0, 0) and no request name (spec 4.2; the
\* constructor of GooseUser is not part of user.rs).
InitialPosition == 0
InitialRequestName == None

\* min_wait, max_wait: non-negative, max >= min or max = 0.
WaitConfigs ==
    { w \in (0..MaxWait) \X (0..MaxWait) : w[2] >= w[1] \/ w[2] = 0 }

\* The second user of the multi-user runs: a hook-less plan and one wait range.
PeerPlan == PlanPair
PeerWait == << 0, 1 >>

\* The second user_main task as it is spawned (user.rs lines 12-31 and 56-62).
PeerStart ==
    [ pc                       |-> "loop_init",
      weighted_tasks           |-> PeerPlan.steady,
      task_request_name        |-> InitialRequestName,
      bucket_atomic            |-> InitialPosition,
      position_atomic          |-> InitialPosition,
      thread_continue          |-> TRUE,
      weighted_bucket          |-> 0,
      weighted_bucket_position |-> 0,
      wait_time                |-> 0,
      slept                    |-> 0 ]

VARIABLES
    plan,                     \* the plan the user was started with
    weighted_on_start_tasks,  \* thread_user.weighted_on_start_tasks
    weighted_tasks,           \* thread_user.weighted_tasks
    weighted_on_stop_tasks,   \* thread_user.weighted_on_stop_tasks
    min_wait, max_wait,       \* thread_user.min_wait / max_wait
    task_request_name,        \* thread_user.task_request_name
    bucket_atomic,            \* thread_user.weighted_bucket (AtomicUsize)
    position_atomic,          \* thread_user.weighted_bucket_position
    thread_receiver,          \* commands queued on the channel
    thread_continue, weighted_bucket, weighted_bucket_position,
    wait_time, slept,         \* locals of the steady loop
    sequence, seq_index, seq_pos,  \* locals of the on_start / on_stop walk
    pc,                       \* where user_main is
    log,                      \* history: every task invocation, in order
    pass,                     \* history: tasks run since the bucket was entered
    last_pass,                \* history: the pass closed by the last bucket advance
    closed,                   \* history: tasks of all closed passes, in order
    sent,                     \* history: commands sent so far
    exit_sent, exit_at,       \* history: EXIT enqueued, and where the user was
    steady_after_exit,        \* history: steady tasks started after EXIT
    slices_begun_after_exit, slices_done_after_exit,
    last_slept,               \* history: slices of the last wait that ended
    polled,                   \* history: the channel was polled since the last invocation
    unpolled,                 \* history: <<phase, next phase>> of invocations with no poll between
    visits,                   \* history: the steady buckets entered, in order
    entry_shuffled,           \* history: the current bucket was shuffled when entered
    received,                 \* history: the kinds of command try_recv has returned
    peer,                     \* a second user_main task: its thread_user fields, locals and position
    peer_receiver,            \* commands queued on the second user's channel
    peer_sent,                \* history: commands sent to the second user
    peer_exit_sent            \* history: EXIT enqueued on the second user's channel

planVars == << plan, weighted_on_start_tasks, weighted_on_stop_tasks,
               min_wait, max_wait >>
loopVars == << thread_continue, weighted_bucket, weighted_bucket_position,
               wait_time, slept >>
hookVars == << sequence, seq_index, seq_pos >>
passVars == << pass, last_pass, closed >>
pollVars == << polled, unpolled >>
visitVars == << visits, entry_shuffled >>
atomVars == << bucket_atomic, position_atomic >>
exitVars == << exit_sent, exit_at, steady_after_exit,
               slices_begun_after_exit, slices_done_after_exit >>
\* Everything of the first user but its channel; everything of the second.
userStateVars == << planVars, weighted_tasks, task_request_name, atomVars,
                    loopVars, hookVars, pc, log, passVars, pollVars, visitVars,
                    sent, exitVars, last_slept, received >>
userVars == << thread_receiver, userStateVars >>
peerVars == << peer, peer_receiver, peer_sent, peer_exit_sent >>
vars == << userVars, peerVars >>

Init ==
    /\ plan \in Plans
    /\ weighted_on_start_tasks = plan.on_start
    /\ weighted_tasks = plan.steady
    /\ weighted_on_stop_tasks = plan.on_stop
    /\ \E w \in WaitConfigs : min_wait = w[1] /\ max_wait = w[2]
    /\ task_request_name = InitialRequestName
    /\ bucket_atomic = InitialPosition
    /\ position_atomic = InitialPosition
    /\ thread_receiver = << >>
    /\ thread_continue = TRUE
    /\ weighted_bucket = 0
    /\ weighted_bucket_position = 0
    /\ wait_time = 0
    /\ slept = 0
    /\ sequence = << >>
    /\ seq_index = 0
    /\ seq_pos = 0
    /\ pc = "on_start"
    /\ log = << >>
    /\ pass = << >>
    /\ last_pass = None
    /\ closed = << >>
    /\ sent = 0
    /\ exit_sent = FALSE
    /\ exit_at = "none"
    /\ steady_after_exit = 0
    /\ slices_begun_after_exit = 0
    /\ slices_done_after_exit = 0
    /\ last_slept = -1
    /\ polled = FALSE
    /\ unpolled = { }
    /\ visits = << >>
    /\ entry_shuffled = FALSE
    /\ received = { }
    /\ peer = PeerStart
    /\ peer_receiver = << >>
    /\ peer_sent = 0
    /\ peer_exit_sent = FALSE

\* ------------------------------------------ decisions taken by the code
\* The bucket list a walk clones: weighted_on_start_tasks for on_start,
\* weighted_on_stop_tasks for on_stop.
HookTasksSwapped(phase) == weighted_on_start_tasks
HookTasks(phase) ==
    IF phase = "on_start" THEN weighted_on_start_tasks ELSE weighted_on_stop_tasks

\* `for task_index in &sequence`: pos entries have been taken so far.
HookHasNextSkipLast(seq, pos) == pos + 1 < Len(seq)
HookHasNext(seq, pos) == pos < Len(seq)

\* `if thread_task_name != "" { task_request_name = Some(name) }`
SetRequestNameNever(name, cur) == cur
SetRequestName(name, cur) == IF name # "" THEN Some(name) ELSE cur

\* `thread_user.weighted_tasks[weighted_bucket].len() <= weighted_bucket_position`
BucketExhaustedEarly(wt, b, p) == Len(wt[b + 1]) <= p + 1
BucketExhaustedLate(wt, b, p) == Len(wt[b + 1]) < p
BucketExhausted(wt, b, p) == Len(wt[b + 1]) <= p

\* `weighted_bucket += 1; if weighted_tasks.len() <= weighted_bucket { = 0 }`
NextBucketStay(wt, b) == b
NextBucket(wt, b) == IF Len(wt) <= b + 1 THEN 0 ELSE b + 1

\* `thread_continue = true`, cleared when weighted_tasks is empty (56-62).
InitialContinueAlways(wt) == TRUE
InitialContinue(wt) == wt # << >>

\* The list thread_user holds after bucket i of an on_start / on_stop walk
\* was shuffled: the walk iterates over a clone (lines 34 and 154), so the
\* shuffle never reaches the list.
HookListAfterInPlace(list, i, shuffled) == [ list EXCEPT ![i + 1] = shuffled ]
HookListAfter(list, i, shuffled) == list

\* `while thread_continue`
WhileAlways(tc) == TRUE
WhileContinue(tc) == tc

\* gen_range(min_wait, max_wait) when max_wait > 0, else 0.  gen_range panics
\* on an empty range (low >= high): the set of outcomes is then empty.
WaitTimes(minw, maxw) ==
    IF maxw > 0 THEN { w \in 0..maxw : minw <= w /\ w < maxw } ELSE { 0 }

\* The match on a received command: EXIT clears thread_continue.
OnCommandIgnoreExit(cmd, tc) == tc
OnCommandAnyStops(cmd, tc) == FALSE
OnCommand(cmd, tc) == IF cmd = "EXIT" THEN FALSE ELSE tc

\* `let mut in_sleep_loop = true`: the sleep loop is always entered.
EnterSleepLoopIfWait(maxw) == maxw > 0
EnterSleepLoop(maxw) == TRUE

\* `if thread_continue && thread_user.max_wait > 0` : sleep one more slice.
ShouldSleepNoExitCheck(tc, maxw) == maxw > 0
ShouldSleep(tc, maxw) == tc /\ maxw > 0

\* `if slept > wait_time { in_sleep_loop = false }`, after slept += 1.
SleepLoopDone(s, w) == s > w

\* ------------------------------------------------------------ history
TaskName(t) == plan.tasks[t + 1]
Invocation(phase, t) == [ phase |-> phase, task |-> t ]
SteadyRuns == Cardinality({ i \in 1..Len(log) : log[i].phase = "steady" })
\* History of polls: an invocation in `phase` starts; note when no try_recv
\* was made since the invocation before it.
NotePoll(phase) ==
    /\ polled' = FALSE
    /\ unpolled' = IF log # << >> /\ ~polled
                   THEN unpolled \cup { << log[Len(log)].phase, phase >> }
                   ELSE unpolled
Running == pc \in { "on_start_task", "task", "on_stop_task" }

\* Where the user is when a command is enqueued; the last slice of a wait is
\* told apart from the earlier ones.
Position ==
    IF pc = "sleeping" /\ SleepLoopDone(slept + 1, wait_time)
    THEN "sleeping_last" ELSE pc

\* ------------------------------------------------ on_start / on_stop walk
\* `for mut sequence in hook_tasks.clone()`: take the next bucket, shuffled.
HookNextSequence(phase) ==
    /\ pc = phase
    /\ ~HookHasNext(sequence, seq_pos)
    /\ seq_index < Len(HookTasks(phase))
    /\ \E shuffled \in HookShuffle(HookTasks(phase)[seq_index + 1]) :
        /\ sequence' = shuffled
        /\ IF phase = "on_start"
           THEN /\ weighted_on_start_tasks' =
                       HookListAfter(weighted_on_start_tasks, seq_index, shuffled)
                /\ UNCHANGED weighted_on_stop_tasks
           ELSE /\ weighted_on_stop_tasks' =
                       HookListAfter(weighted_on_stop_tasks, seq_index, shuffled)
                /\ UNCHANGED weighted_on_start_tasks
    /\ seq_index' = seq_index + 1
    /\ seq_pos' = 0
    /\ UNCHANGED << pollVars, visitVars, plan, min_wait, max_wait, peerVars,
                    received, weighted_tasks, task_request_name, atomVars,
                    thread_receiver, loopVars, pc, log, passVars, sent, exitVars,
                    last_slept >>

\* Set the request name and invoke the task function.
HookInvoke(phase) ==
    /\ pc = phase
    /\ HookHasNext(sequence, seq_pos)
    /\ LET t == sequence[seq_pos + 1] IN
        /\ task_request_name' = SetRequestName(TaskName(t), task_request_name)
        /\ log' = Append(log, Invocation(phase, t))
    /\ seq_pos' = seq_pos + 1
    /\ NotePoll(phase)
    /\ pc' = IF phase = "on_start" THEN "on_start_task" ELSE "on_stop_task"
    /\ UNCHANGED << visitVars, planVars, peerVars, received, weighted_tasks, atomVars, thread_receiver,
                    loopVars, sequence, seq_index, passVars, sent, exitVars,
                    last_slept >>

\* `function(&thread_user).await` returns.
HookTaskDone(phase) ==
    /\ pc = (IF phase = "on_start" THEN "on_start_task" ELSE "on_stop_task")
    /\ pc' = phase
    /\ UNCHANGED << pollVars, visitVars, planVars, peerVars, received, weighted_tasks, task_request_name, atomVars,
                    thread_receiver, loopVars, hookVars, log, passVars, sent,
                    exitVars, last_slept >>

OnStartNextSequence == HookNextSequence("on_start")
OnStartInvoke == HookInvoke("on_start")
OnStartTaskDone == HookTaskDone("on_start")
OnStopNextSequence == HookNextSequence("on_stop")
OnStopInvoke == HookInvoke("on_stop")
OnStopTaskDone == HookTaskDone("on_stop")

\* on_start is walked: set up the steady loop (lines 56-62).
SteadyInit ==
    /\ pc = "on_start"
    /\ ~HookHasNext(sequence, seq_pos)
    /\ seq_index >= Len(HookTasks("on_start"))
    /\ thread_continue' = InitialContinue(weighted_tasks)
    /\ weighted_bucket' = bucket_atomic
    /\ weighted_bucket_position' = position_atomic
    /\ pc' = "loop_head"
    /\ UNCHANGED << pollVars, visitVars, planVars, peerVars, received, weighted_tasks, task_request_name, atomVars,
                    thread_receiver, wait_time, slept, hookVars, log, passVars,
                    sent, exitVars, last_slept >>

\* on_stop is walked: user_main returns.
OnStopDone ==
    /\ pc = "on_stop"
    /\ ~HookHasNext(sequence, seq_pos)
    /\ seq_index >= Len(HookTasks("on_stop"))
    /\ pc' = "done"
    /\ UNCHANGED << pollVars, visitVars, planVars, peerVars, received, weighted_tasks, task_request_name, atomVars,
                    thread_receiver, loopVars, hookVars, log, passVars, sent,
                    exitVars, last_slept >>

\* --------------------------------------------------------- steady loop
\* Every index taken at the loop head is in bounds: the current bucket
\* (line 65), the bucket the loop head ends up in (line 80) and the position
\* in it (line 89).
SelectInBounds ==
    /\ weighted_bucket < Len(weighted_tasks)
    /\ LET exhausted == BucketExhausted(weighted_tasks, weighted_bucket,
                                        weighted_bucket_position)
           nb == IF exhausted THEN NextBucket(weighted_tasks, weighted_bucket)
                 ELSE weighted_bucket
           np == IF exhausted THEN 0 ELSE weighted_bucket_position
       IN /\ nb < Len(weighted_tasks)
          /\ np < Len(weighted_tasks[nb + 1])

\* One loop head (lines 63-101): advance the bucket when it is exhausted
\* (storing to the atomics and shuffling the bucket entered), pick the task,
\* set the request name, invoke the function.
SteadyInvoke ==
    /\ pc = "loop_head"
    /\ WhileContinue(thread_continue)
    /\ SelectInBounds
    /\ \/ SteadyRuns < MaxRuns
       \/ exit_sent /\ SteadyRuns <= MaxRuns
    /\ LET exhausted == BucketExhausted(weighted_tasks, weighted_bucket,
                                        weighted_bucket_position)
           nb == IF exhausted THEN NextBucket(weighted_tasks, weighted_bucket)
                 ELSE weighted_bucket
           np == IF exhausted THEN 0 ELSE weighted_bucket_position
       IN
        /\ weighted_bucket' = nb
        /\ weighted_bucket_position' = np
        /\ position_atomic' = IF exhausted THEN np ELSE position_atomic
        \* line 78 stores weighted_bucket_position into weighted_bucket
        /\ bucket_atomic' = IF exhausted THEN np ELSE bucket_atomic
        /\ \E bucket \in (IF exhausted THEN Shuffle(weighted_tasks[nb + 1])
                          ELSE { weighted_tasks[nb + 1] }) :
            LET t == bucket[np + 1] IN
            /\ weighted_tasks' = [ weighted_tasks EXCEPT ![nb + 1] = bucket ]
            /\ task_request_name' =
                   SetRequestName(TaskName(t), task_request_name)
            /\ log' = Append(log, Invocation("steady", t))
            /\ pass' = IF exhausted THEN << t >> ELSE Append(pass, t)
        /\ last_pass' = IF exhausted
                        THEN Some([ bucket |-> weighted_bucket, tasks |-> pass ])
                        ELSE last_pass
        /\ closed' = IF exhausted THEN closed \o pass ELSE closed
        /\ visits' = IF exhausted \/ visits = << >>
                     THEN Append(visits, nb) ELSE visits
        /\ entry_shuffled' = (exhausted \/ entry_shuffled)
    /\ NotePoll("steady")
    /\ steady_after_exit' = steady_after_exit + (IF exit_sent THEN 1 ELSE 0)
    /\ pc' = "task"
    /\ UNCHANGED << planVars, peerVars, received, thread_receiver, thread_continue, wait_time,
                    slept, hookVars, sent, exit_sent, exit_at,
                    slices_begun_after_exit, slices_done_after_exit,
                    last_slept >>

\* Leaving the sleep loop: move to the next position (lines 145-149).
EndWait(s) ==
    /\ weighted_bucket_position' = weighted_bucket_position + 1
    /\ position_atomic' = weighted_bucket_position + 1
    /\ last_slept' = IF thread_continue THEN s ELSE -1
    /\ pc' = "loop_head"

\* The task function returns; draw wait_time (lines 103-113).
TaskDone ==
    /\ pc = "task"
    /\ WaitTimes(min_wait, max_wait) # { }
    /\ wait_time' \in WaitTimes(min_wait, max_wait)
    /\ slept' = 0
    /\ IF EnterSleepLoop(max_wait)
       THEN /\ pc' = "recv"
            /\ UNCHANGED << weighted_bucket_position, position_atomic,
                            last_slept >>
       ELSE EndWait(0)
    /\ UNCHANGED << pollVars, visitVars, planVars, peerVars, received, weighted_tasks,
                    task_request_name, bucket_atomic, thread_receiver,
                    thread_continue, weighted_bucket, hookVars, log, passVars,
                    sent, exitVars >>

\* A panic aborts the user task: gen_range on its empty range when the task
\* function has returned (line 105), or an index out of bounds at the loop
\* head.  At the loop head the index of line 65 panics before anything is
\* stored; when the bucket is exhausted the stores of lines 67-78 have been
\* made by the time the lookup of line 89 panics.
UserPanic ==
    /\ IF pc = "task"
       THEN /\ WaitTimes(min_wait, max_wait) = { }
            /\ UNCHANGED << atomVars, weighted_bucket, weighted_bucket_position >>
       ELSE /\ pc = "loop_head"
            /\ WhileContinue(thread_continue)
            /\ ~SelectInBounds
            /\ IF /\ weighted_bucket < Len(weighted_tasks)
                  /\ BucketExhausted(weighted_tasks, weighted_bucket,
                                     weighted_bucket_position)
               THEN /\ weighted_bucket_position' = 0
                    /\ position_atomic' = 0
                    /\ weighted_bucket' = NextBucket(weighted_tasks, weighted_bucket)
                    \* line 78 stores weighted_bucket_position into weighted_bucket
                    /\ bucket_atomic' = 0
               ELSE UNCHANGED << atomVars, weighted_bucket,
                                 weighted_bucket_position >>
    /\ pc' = "panicked"
    /\ UNCHANGED << pollVars, visitVars, planVars, peerVars, received,
                    weighted_tasks, task_request_name, thread_receiver,
                    thread_continue, wait_time, slept, hookVars, log, passVars,
                    sent, exitVars, last_slept >>

\* try_recv returned a command (lines 115-128).
RecvCommand ==
    /\ pc = "recv"
    /\ polled' = TRUE
    /\ UNCHANGED unpolled
    /\ thread_receiver # << >>
    /\ thread_continue' = OnCommand(Head(thread_receiver), thread_continue)
    /\ thread_receiver' = Tail(thread_receiver)
    /\ received' = received \cup { Head(thread_receiver) }
    /\ UNCHANGED << visitVars, planVars, peerVars, weighted_tasks, task_request_name, atomVars,
                    weighted_bucket, weighted_bucket_position, wait_time,
                    slept, hookVars, pc, log, passVars, sent, exitVars,
                    last_slept >>

\* try_recv found the channel empty and the user starts a 1-second slice
\* (lines 129-135).
BeginSlice ==
    /\ pc = "recv"
    /\ polled' = TRUE
    /\ UNCHANGED unpolled
    /\ thread_receiver = << >>
    /\ ShouldSleep(thread_continue, max_wait)
    /\ pc' = "sleeping"
    /\ slices_begun_after_exit' =
           slices_begun_after_exit + (IF exit_sent THEN 1 ELSE 0)
    /\ UNCHANGED << visitVars, planVars, peerVars, received, weighted_tasks, task_request_name, atomVars,
                    thread_receiver, loopVars, hookVars, log, passVars, sent,
                    exit_sent, exit_at, steady_after_exit,
                    slices_done_after_exit, last_slept >>

\* try_recv found the channel empty and the user does not sleep
\* (lines 140-142).
SkipSlice ==
    /\ pc = "recv"
    /\ polled' = TRUE
    /\ UNCHANGED unpolled
    /\ thread_receiver = << >>
    /\ ~ShouldSleep(thread_continue, max_wait)
    /\ EndWait(slept)
    /\ UNCHANGED << visitVars, planVars, peerVars, received, weighted_tasks, task_request_name, bucket_atomic,
                    thread_receiver, thread_continue, weighted_bucket,
                    wait_time, slept, hookVars, log, passVars, sent, exitVars >>

\* delay_for(1 s) returns (lines 136-139).
SliceDone ==
    /\ pc = "sleeping"
    /\ slept' = slept + 1
    /\ slices_done_after_exit' =
           slices_done_after_exit + (IF exit_sent THEN 1 ELSE 0)
    /\ IF SleepLoopDone(slept + 1, wait_time)
       THEN EndWait(slept + 1)
       ELSE /\ pc' = "recv"
            /\ UNCHANGED << weighted_bucket_position, position_atomic,
                            last_slept >>
    /\ UNCHANGED << pollVars, visitVars, planVars, peerVars, received, weighted_tasks, task_request_name, bucket_atomic,
                    thread_receiver, thread_continue, weighted_bucket,
                    wait_time, hookVars, log, passVars, sent, exit_sent, exit_at,
                    steady_after_exit, slices_begun_after_exit >>

\* `while thread_continue` fails: start the on_stop walk (line 152).
LeaveLoop ==
    /\ pc = "loop_head"
    /\ ~WhileContinue(thread_continue)
    /\ pc' = "on_stop"
    /\ sequence' = << >>
    /\ seq_index' = 0
    /\ seq_pos' = 0
    /\ UNCHANGED << pollVars, visitVars, planVars, peerVars, received, weighted_tasks, task_request_name, atomVars,
                    thread_receiver, loopVars, log, passVars, sent, exitVars,
                    last_slept >>

\* ----------------------------------------------------------- controller
\* The parent sends a command on the user's channel.
Send(cmd) ==
    /\ sent + peer_sent < MaxCmds
    /\ pc \notin { "done", "panicked" }
    /\ thread_receiver' = Append(thread_receiver, cmd)
    /\ sent' = sent + 1
    /\ exit_sent' = (exit_sent \/ cmd = "EXIT")
    /\ exit_at' = IF cmd = "EXIT" /\ ~exit_sent THEN Position ELSE exit_at
    /\ UNCHANGED << pollVars, visitVars, planVars, peerVars, received, weighted_tasks, task_request_name, atomVars,
                    loopVars, hookVars, pc, log, passVars, steady_after_exit,
                    slices_begun_after_exit, slices_done_after_exit,
                    last_slept >>

SendExit == Send("EXIT")
SendOther == \E cmd \in Commands \ { "EXIT" } : Send(cmd)

UserStep ==
    \/ OnStartNextSequence
    \/ OnStartInvoke
    \/ OnStartTaskDone
    \/ SteadyInit
    \/ SteadyInvoke
    \/ TaskDone
    \/ UserPanic
    \/ RecvCommand
    \/ BeginSlice
    \/ SkipSlice
    \/ SliceDone
    \/ LeaveLoop
    \/ OnStopNextSequence
    \/ OnStopInvoke
    \/ OnStopTaskDone
    \/ OnStopDone

Next ==
    \/ UserStep
    \/ SendExit
    \/ SendOther

Spec == Init /\ [][Next]_vars

\* Every task function and every sleep slice returns, and the user task is
\* scheduled: the user's next step is eventually taken.
FairSpec == Spec /\ WF_vars(UserStep)

\* ------------------------------------------------------ the second user
\* The channel user_main of user u polls: the Receiver it was handed
\* (line 15), one per user.
ReceiverShared(u) == "user"
Receiver(u) == u

PeerChannel ==
    IF Receiver("peer") = "peer" THEN peer_receiver ELSE thread_receiver

\* The walk of the (empty) on_start list ends: set up the loop (lines 56-62).
PeerSteadyInit ==
    /\ peer.pc = "loop_init"
    /\ peer' = [ peer EXCEPT
                   !.thread_continue = InitialContinue(peer.weighted_tasks),
                   !.weighted_bucket = peer.bucket_atomic,
                   !.weighted_bucket_position = peer.position_atomic,
                   !.pc = "loop_head" ]
    /\ UNCHANGED << userVars, peer_receiver, peer_sent, peer_exit_sent >>

\* One loop head of the second user (lines 63-101).
PeerSteadyInvoke ==
    /\ peer.pc = "loop_head"
    /\ WhileContinue(peer.thread_continue)
    /\ LET exhausted == BucketExhausted(peer.weighted_tasks, peer.weighted_bucket,
                                        peer.weighted_bucket_position)
           nb == IF exhausted
                 THEN NextBucket(peer.weighted_tasks, peer.weighted_bucket)
                 ELSE peer.weighted_bucket
           np == IF exhausted THEN 0 ELSE peer.weighted_bucket_position
       IN
        \E bucket \in (IF exhausted THEN Shuffle(peer.weighted_tasks[nb + 1])
                       ELSE { peer.weighted_tasks[nb + 1] }) :
            peer' = [ peer EXCEPT
                        !.weighted_bucket = nb,
                        !.weighted_bucket_position = np,
                        !.position_atomic = IF exhausted THEN np ELSE @,
                        !.bucket_atomic = IF exhausted THEN np ELSE @,
                        !.weighted_tasks = [ @ EXCEPT ![nb + 1] = bucket ],
                        !.task_request_name =
                            SetRequestName(PeerPlan.tasks[bucket[np + 1] + 1], @),
                        !.pc = "task" ]
    /\ UNCHANGED << userVars, peer_receiver, peer_sent, peer_exit_sent >>

\* The second user's task function returns (lines 103-113).
PeerTaskDone ==
    /\ peer.pc = "task"
    /\ \E w \in WaitTimes(PeerWait[1], PeerWait[2]) :
        peer' = [ peer EXCEPT !.wait_time = w, !.slept = 0, !.pc = "recv" ]
    /\ UNCHANGED << userVars, peer_receiver, peer_sent, peer_exit_sent >>

\* The second user's try_recv returned a command (lines 115-128).
PeerRecvCommand ==
    /\ peer.pc = "recv"
    /\ PeerChannel # << >>
    /\ peer' = [ peer EXCEPT
                   !.thread_continue = OnCommand(Head(PeerChannel), @) ]
    /\ IF Receiver("peer") = "peer"
       THEN peer_receiver' = Tail(peer_receiver) /\ UNCHANGED thread_receiver
       ELSE thread_receiver' = Tail(thread_receiver) /\ UNCHANGED peer_receiver
    /\ UNCHANGED << userStateVars, peer_sent, peer_exit_sent >>

\* The second user's try_recv found nothing: sleep a slice or leave the
\* sleep loop (lines 129-149).
PeerBeginSlice ==
    /\ peer.pc = "recv"
    /\ PeerChannel = << >>
    /\ peer' = IF ShouldSleep(peer.thread_continue, PeerWait[2])
               THEN [ peer EXCEPT !.pc = "sleeping" ]
               ELSE [ peer EXCEPT
                        !.weighted_bucket_position = @ + 1,
                        !.position_atomic = peer.weighted_bucket_position + 1,
                        !.pc = "loop_head" ]
    /\ UNCHANGED << userVars, peer_receiver, peer_sent, peer_exit_sent >>

\* The second user's delay_for(1 s) returns (lines 136-139, 145-149).
PeerSliceDone ==
    /\ peer.pc = "sleeping"
    /\ peer' = IF SleepLoopDone(peer.slept + 1, peer.wait_time)
               THEN [ peer EXCEPT
                        !.slept = @ + 1,
                        !.weighted_bucket_position = @ + 1,
                        !.position_atomic = peer.weighted_bucket_position + 1,
                        !.pc = "loop_head" ]
               ELSE [ peer EXCEPT !.slept = @ + 1, !.pc = "recv" ]
    /\ UNCHANGED << userVars, peer_receiver, peer_sent, peer_exit_sent >>

\* The second user's loop ends; its on_stop list is empty (lines 152-173).
PeerLeaveLoop ==
    /\ peer.pc = "loop_head"
    /\ ~WhileContinue(peer.thread_continue)
    /\ peer' = [ peer EXCEPT !.pc = "done" ]
    /\ UNCHANGED << userVars, peer_receiver, peer_sent, peer_exit_sent >>

\* The parent sends a command on the second user's channel.
SendPeer(cmd) ==
    /\ sent + peer_sent < MaxCmds
    /\ peer.pc # "done"
    /\ peer_receiver' = Append(peer_receiver, cmd)
    /\ peer_sent' = peer_sent + 1
    /\ peer_exit_sent' = (peer_exit_sent \/ cmd = "EXIT")
    /\ UNCHANGED << userVars, peer >>

SendPeerExit == SendPeer("EXIT")
SendPeerOther == \E cmd \in Commands \ { "EXIT" } : SendPeer(cmd)

PeerStep ==
    \/ PeerSteadyInit
    \/ PeerSteadyInvoke
    \/ PeerTaskDone
    \/ PeerRecvCommand
    \/ PeerBeginSlice
    \/ PeerSliceDone
    \/ PeerLeaveLoop

\* Two users run side by side, each with its own channel.  The first user
\* walks hooks and two buckets, with a wait range that sleeps and one that
\* makes gen_range panic.
MultiInit ==
    /\ Init
    /\ plan = PlanSeq
    /\ << min_wait, max_wait >> \in { << 0, 1 >>, << 1, 1 >> }

MultiNext ==
    \/ Next
    \/ PeerStep
    \/ SendPeerExit
    \/ SendPeerOther

MultiSpec == MultiInit /\ [][MultiNext]_vars

\* ============================================================== claims
InBuckets(bs, t) == \E i \in 1..Len(bs) : t \in Range(bs[i])
RECURSIVE Flatten(_)
Flatten(bs) == IF bs = << >> THEN << >> ELSE Head(bs) \o Flatten(Tail(bs))

\* The kind of a task is the bucket list of the plan that holds it.
Kind(t) ==
    IF InBuckets(plan.on_start, t) THEN "on_start"
    ELSE IF InBuckets(plan.on_stop, t) THEN "on_stop"
    ELSE "steady"
LogKinds == { Kind(log[i].task) : i \in 1..Len(log) }
CurrentTask == log[Len(log)].task
PhaseRuns(phase, t) ==
    Cardinality({ i \in 1..Len(log) : log[i].phase = phase /\ log[i].task = t })
OnStopComplete ==
    \A t \in 0..(Len(plan.tasks) - 1) :
        PhaseRuns("on_stop", t) = Count(Flatten(plan.on_stop), t)
WaitDrawable == max_wait = 0 \/ min_wait < max_wait

\* C1: in the order of invocation, no on-start task is invoked after a steady
\* task and no on-stop task is invoked before a steady task; in the
\* plan with AuthBrowsingUser's on_start list the first function invoked is
\* the login task.
C1_PhaseOrder ==
    /\ \A i, j \in 1..Len(log) :
          i < j =>
            /\ ~(Kind(log[i].task) = "steady" /\ Kind(log[j].task) = "on_start")
            /\ ~(Kind(log[i].task) = "on_stop" /\ Kind(log[j].task) = "steady")
    /\ (plan = PlanWeighted /\ log # << >>) => TaskName(log[1].task) = "(Auth) login"
C1_Witness ==
    /\ pc = "done"
    /\ LogKinds = { "on_start", "steady", "on_stop" }

\* C2: when user_main has returned, every entry of the on_stop buckets has
\* been executed exactly once (and never more than once before that),
\* wherever the user was when EXIT was enqueued.
C2_OnStopOnce ==
    /\ \A t \in 0..(Len(plan.tasks) - 1) :
          PhaseRuns("on_stop", t) <= Count(Flatten(plan.on_stop), t)
    /\ pc = "done" => OnStopComplete
C2_Witness ==
    /\ pc = "done"
    /\ plan.on_stop # << >>
    /\ plan.steady # << >>
    /\ exit_at \in { "on_start", "on_start_task" }

\* C3 as stated: once EXIT is on the channel no further steady task is
\* started, and the user does not return before on_stop has run.
C3_NoFurtherTask ==
    /\ exit_sent => steady_after_exit = 0
    /\ (exit_sent /\ pc = "done") => OnStopComplete

\* C3, amended: once EXIT is on the channel at most one further steady task
\* is started, and none when EXIT arrived while a steady task was running,
\* during a drain, or during a slice that is not the last of its wait; the
\* user does not return before on_stop has run.
C3_AtMostOneFurtherTask ==
    /\ steady_after_exit <= 1
    /\ exit_at \in { "task", "recv", "sleeping" } => steady_after_exit = 0
    /\ (exit_sent /\ pc = "done") => OnStopComplete
C3_Witness ==
    /\ pc = "done"
    /\ exit_at = "sleeping_last"
    /\ steady_after_exit = 1
    /\ plan.on_stop # << >>

\* C4: after EXIT is enqueued at most one more sleep slice completes, and
\* counting the slice in progress when EXIT arrived no second slice begins.
C4_OneSliceAfterExit ==
    /\ slices_done_after_exit <= 1
    /\ slices_begun_after_exit
         + (IF exit_at \in { "sleeping", "sleeping_last" } THEN 1 ELSE 0) <= 1
C4_Witness ==
    /\ pc = "done"
    /\ min_wait = 0 /\ max_wait = MaxWait
    /\ exit_at = "sleeping"
    /\ slices_done_after_exit = 1

\* C5: (under FairSpec) once EXIT has been sent, with max_wait = 0 or
\* min_wait < max_wait, user_main eventually returns.
C5_ExitLeadsToDone == (exit_sent /\ WaitDrawable) ~> (pc = "done")
C5_Witness ==
    /\ pc = "done"
    /\ exit_sent
    /\ SteadyRuns > 1
    /\ max_wait > 0

\* C6: a wait that ended with no EXIT seen slept a number of slices in
\* [min_wait, max_wait) when max_wait > 0, and 0 slices when max_wait = 0.
C6_WaitInRange ==
    last_slept >= 0 =>
        IF max_wait > 0
        THEN min_wait <= last_slept /\ last_slept < max_wait
        ELSE last_slept = 0

\* C7: for every allowed wait configuration the wait computed after a steady
\* task has a value: the draw is never over an empty range and the user is
\* never aborted.
C7_WaitAlwaysComputed ==
    /\ pc = "task" => WaitTimes(min_wait, max_wait) # { }
    /\ pc # "panicked"

\* C8: while a task function with a non-empty name runs, in any phase,
\* task_request_name is that task's name.
C8_NamedTaskSetsName ==
    (Running /\ TaskName(CurrentTask) # "") =>
        task_request_name = Some(TaskName(CurrentTask))
C8_Witness ==
    /\ pc = "task"
    /\ TaskName(CurrentTask) = "(Anon) front page"
    /\ Len(log) > 1
    /\ task_request_name = Some("(Anon) front page")

\* C9: while a task function with an empty name runs, task_request_name is
\* none: it does not hold the name of a task executed earlier.
C9_UnnamedTaskHasNoName ==
    (Running /\ TaskName(CurrentTask) = "") => task_request_name = None

\* C10: a pass closed by a bucket advance executed exactly the bucket's
\* multiset of task indices; with a single bucket, after k closed passes a
\* task occurring c times in the bucket has been executed k * c times.
C10_PassIsBucketBag ==
    /\ last_pass # None =>
          SameBag(last_pass[1].tasks, plan.steady[last_pass[1].bucket + 1])
    /\ Len(plan.steady) = 1 =>
          LET n == Len(plan.steady[1])
              k == Len(closed) \div n
          IN /\ Len(closed) = k * n
             /\ \A t \in Range(plan.steady[1]) :
                   Count(closed, t) = k * Count(plan.steady[1], t)
C10_Witness ==
    /\ plan = PlanWeighted
    /\ last_pass # None
    /\ Count(closed, 1) = 2
    /\ Count(closed, 2) = 1
    /\ weighted_tasks[1] # plan.steady[1]
    /\ pc = "task"

\* C11: (under FairSpec) a user with no steady bucket never invokes a steady
\* task and never polls or sleeps, and with no EXIT needed it returns after
\* having run every on_start and every on_stop entry.
HookComplete(phase, buckets) ==
    \A t \in 0..(Len(plan.tasks) - 1) :
        PhaseRuns(phase, t) = Count(Flatten(buckets), t)
C11_EmptySteadySafe ==
    plan.steady = << >> =>
        /\ pc \notin { "task", "recv", "sleeping", "panicked" }
        /\ SteadyRuns = 0
        /\ pc = "done" => /\ HookComplete("on_start", plan.on_start)
                          /\ HookComplete("on_stop", plan.on_stop)
C11_EmptySteady ==
    /\ [] C11_EmptySteadySafe
    /\ (plan.steady = << >>) ~> (pc = "done")
C11_Witness ==
    /\ plan.steady = << >>
    /\ pc = "done"
    /\ sent = 0
    /\ Len(log) = 2

\* C12: when a wait has just ended with no EXIT seen and max_wait > 0, the
\* number of slices slept equals the drawn wait_time (none for a draw of 0).
C12_SlicesEqualWait ==
    (pc \in { "loop_head", "task" } /\ last_slept >= 0 /\ max_wait > 0) =>
        last_slept = wait_time

\* C13 as stated: between any two consecutive task invocations, in any
\* phase, the channel is polled at least once.
C13_PollBetweenAnyTasks == unpolled = { }

\* C13, amended: after a steady task the channel is polled at least once
\* before the next task (steady or on_stop) is invoked, so an EXIT enqueued
\* while a steady task runs is seen before another task starts.
C13_PollAfterSteadyTask ==
    /\ \A p \in unpolled : p[1] # "steady"
    /\ (pc = "loop_head" /\ SteadyRuns > 0) => polled
    /\ exit_at = "task" => steady_after_exit = 0
C13_Witness ==
    /\ pc = "task"
    /\ SteadyRuns = 3
    /\ unpolled = { << "on_start", "on_start" >>, << "on_start", "steady" >> }

\* C14: whenever a steady task is running, the user's shared bucket index
\* (the atomic weighted_bucket) is the index of the bucket the task was
\* taken from, the bucket entered by the last advance.
C14_AtomicHoldsBucket ==
    pc = "task" => bucket_atomic = weighted_bucket

\* C15: whenever a steady task is running, the bucket it is taken from was
\* shuffled when it was entered, the first entry into bucket 0 included.
C15_EntryShuffled ==
    pc = "task" => entry_shuffled

\* C16: the steady buckets are entered in the order 0, 1, ..., n-1, 0, ...;
\* a bucket is left only when every position of it has been executed; the
\* task running is one of the bucket last entered; a bucket entered by an
\* advance (also the single bucket, entered again) has been shuffled.
C16_CyclicOrder ==
    /\ visits # << >> => visits[1] = 0
    /\ \A i \in 1..(Len(visits) - 1) :
          visits[i + 1] = (visits[i] + 1) % Len(plan.steady)
    /\ last_pass # None =>
          Len(last_pass[1].tasks) = Len(plan.steady[last_pass[1].bucket + 1])
    /\ pc = "task" =>
          /\ weighted_bucket = visits[Len(visits)]
          /\ CurrentTask \in Range(plan.steady[weighted_bucket + 1])
          /\ Len(visits) > 1 => entry_shuffled
C16_Witness ==
    /\ plan = PlanSeq
    /\ visits = << 0, 1, 0 >>
    /\ pc = "task"

\* C17: the tasks invoked by the on_start walk (and by the on_stop walk) are,
\* bucket after bucket in list order, a permutation of each bucket: every
\* entry of bucket k is executed exactly once before any entry of bucket
\* k + 1, and a finished walk has executed every bucket.
PhaseTasks(phase) ==
    LET sel == SelectSeq(log, LAMBDA e : e.phase = phase)
    IN [ i \in 1..Len(sel) |-> sel[i].task ]
SubBag(s, t) == \A x \in Range(s) : Count(s, x) <= Count(t, x)
RECURSIVE WalkedInOrder(_, _)
WalkedInOrder(done, buckets) ==
    IF done = << >> THEN TRUE
    ELSE IF buckets = << >> THEN FALSE
    ELSE LET b == Head(buckets)
             n == Len(b)
         IN IF Len(done) >= n
            THEN /\ SameBag(SubSeq(done, 1, n), b)
                 /\ WalkedInOrder(SubSeq(done, n + 1, Len(done)), Tail(buckets))
            ELSE SubBag(done, b)
C17_HooksInListOrder ==
    /\ WalkedInOrder(PhaseTasks("on_start"), plan.on_start)
    /\ WalkedInOrder(PhaseTasks("on_stop"), plan.on_stop)
    /\ pc \notin { "on_start", "on_start_task" } =>
          Len(PhaseTasks("on_start")) = Len(Flatten(plan.on_start))
    /\ pc = "done" =>
          Len(PhaseTasks("on_stop")) = Len(Flatten(plan.on_stop))
C17_Witness ==
    /\ plan = PlanSeq
    /\ pc = "done"
    /\ PhaseTasks("on_start") = << 0, 1 >>
    /\ PhaseTasks("on_stop") = << 6, 5 >>

\* C18: receiving a command other than EXIT only removes it from the
\* channel: thread_continue, the wait in progress (wait_time, slept, the
\* place in the sleep loop), the bucket, the position, the atomics, the
\* buckets and task_request_name are unchanged.  The drain is left only
\* with the channel empty, receiving EXIT clears thread_continue, and once
\* EXIT has been taken off the channel thread_continue is false, whatever
\* was queued before or after it.
Receives ==
    /\ pc = "recv"
    /\ sent' = sent
    /\ thread_receiver # << >>
ExitTaken == "EXIT" \in received
C18_OtherCommandsIgnored ==
    /\ [] (ExitTaken => ~thread_continue)
    /\ [][ /\ (Receives /\ Head(thread_receiver) # "EXIT") =>
                /\ thread_receiver' = Tail(thread_receiver)
                /\ UNCHANGED << thread_continue, pc, wait_time, slept,
                                weighted_bucket, weighted_bucket_position,
                                atomVars, weighted_tasks, task_request_name >>
           /\ (Receives /\ Head(thread_receiver) = "EXIT") =>
                /\ thread_receiver' = Tail(thread_receiver)
                /\ ~thread_continue'
           /\ (pc = "recv" /\ pc' # "recv") => thread_receiver = << >>
         ]_vars
C18_Witness ==
    /\ pc = "sleeping"
    /\ sent = MaxCmds
    /\ ~exit_sent
    /\ thread_receiver = << >>
    /\ thread_continue
    /\ slept > 0

\* C19: with two users running side by side, each on its own channel, a
\* command put on or taken off one user's channel leaves the other user's
\* loop flag, position, bucket, request name and channel unchanged, and a
\* user stops its steady loop only when EXIT was sent on its own channel.
C19_ExitStopsOnlyItsUser ==
    /\ [] ((~peer.thread_continue \/ peer.pc = "done") => peer_exit_sent)
    /\ [] ((~thread_continue \/ pc \in { "on_stop", "on_stop_task", "done" })
              => exit_sent)
    /\ [][ /\ (thread_receiver' # thread_receiver) =>
                UNCHANGED << peer, peer_receiver >>
           /\ (peer_receiver' # peer_receiver) =>
                UNCHANGED << thread_receiver, thread_continue, pc,
                             weighted_bucket, weighted_bucket_position,
                             atomVars, task_request_name >> ]_vars
C19_Witness ==
    /\ exit_sent /\ pc = "done"
    /\ peer_sent = 0
    /\ peer.thread_continue
    /\ peer.pc = "task"
    /\ peer.weighted_bucket_position = 1
    /\ peer.task_request_name # None

\* C20: a user with a steady bucket that has not taken EXIT off its channel
\* is still running: it has not started on_stop, has not returned and has
\* not been aborted.
C20_NoSelfExit ==
    (plan.steady # << >> /\ ~ExitTaken) =>
        pc \notin { "on_stop", "on_stop_task", "done", "panicked" }

\* C21: for every wait range and every point at which EXIT is enqueued, at
\* most one steady task is started after EXIT is on the channel: a steady
\* task starts with EXIT enqueued only if none has started since and EXIT
\* has not been taken off the channel, and none starts once the loop is left.
StartsSteadyTask ==
    /\ Len(log') = Len(log) + 1
    /\ log'[Len(log')].phase = "steady"
C21_OneTaskAfterExit ==
    /\ [] (steady_after_exit \in { 0, 1 })
    /\ [][ (exit_sent /\ StartsSteadyTask) =>
               /\ steady_after_exit = 0
               /\ ~ExitTaken
               /\ thread_continue
               /\ pc = "loop_head" ]_vars
C21_Witness ==
    /\ pc = "done"
    /\ max_wait = 0
    /\ exit_at = "on_start_task"
    /\ steady_after_exit = 1
    /\ SteadyRuns = 1

\* C22: in every reachable state the user's steady list has as many buckets
\* as the plan it was started with, each bucket has the plan's length and
\* the plan's multiset of task indices, and the on_start and on_stop lists
\* are those of the plan, order included.
C22_PlanContentKept ==
    /\ Len(weighted_tasks) = Len(plan.steady)
    /\ \A i \in 1..Len(plan.steady) :
          /\ Len(weighted_tasks[i]) = Len(plan.steady[i])
          /\ \A t \in 0..(Len(plan.tasks) - 1) :
                Count(weighted_tasks[i], t) = Count(plan.steady[i], t)
    /\ weighted_on_start_tasks = plan.on_start
    /\ weighted_on_stop_tasks = plan.on_stop
C22_Witness ==
    /\ plan = PlanSeq
    /\ pc = "on_stop_task"
    /\ sequence = << 6, 5 >>
    /\ weighted_tasks[2] = << 4, 3 >>
    /\ Len(visits) > 2

\* C23: with every steady bucket non-empty and the stored position starting
\* at (0, 0), every index the loop head takes is in bounds, and whenever a
\* steady task has been selected the bucket index is below the number of
\* buckets and the position is below the length of the current bucket.
NonEmptyBuckets == \A i \in 1..Len(plan.steady) : plan.steady[i] # << >>
C23_LookupsInBounds ==
    (NonEmptyBuckets /\ InitialPosition = 0) =>
        /\ (pc = "loop_head" /\ WhileContinue(thread_continue)) => SelectInBounds
        /\ pc \in { "task", "recv", "sleeping" } =>
              /\ weighted_bucket < Len(weighted_tasks)
              /\ weighted_bucket_position < Len(weighted_tasks[weighted_bucket + 1])
              /\ log[Len(log)].task =
                    weighted_tasks[weighted_bucket + 1][weighted_bucket_position + 1]
C23_Witness ==
    /\ plan = PlanSeq
    /\ pc = "task"
    /\ visits = << 0, 1, 0 >>
    /\ weighted_tasks # plan.steady
    /\ weighted_bucket = 0
    /\ weighted_bucket_position = 0

====
